---- MODULE Spec2Model ----
(***************************************************************************)
(* A model of the vCenter administration console of src/5.2Menu.py: the    *)
(* start-up sequence, the main menu, the VM Actions submenu and the six    *)
(* interactive handlers (power on, power off, snapshot, delete,            *)
(* reconfigure, rename).  The process blocks at every input(); one action  *)
(* of the model is the code that runs from one input() to the next.        *)
(*                                                                         *)
(* Strings are sequences of one-character strings, so that strip(),        *)
(* upper(), lower(), `in`, find(), slicing and int() are computed as       *)
(* Python computes them.  The inventory is the remote vCenter state: the   *)
(* managed objects the handlers hold are live references, so vm.name and   *)
(* vm.runtime.powerState are looked up in the inventory at the time of     *)
(* the read.  Inventory reads are taken to succeed; a mutating remote      *)
(* call either takes effect, returns a task that has no effect, or raises. *)
(***************************************************************************)
EXTENDS Integers, Sequences, FiniteSets, TLC

VARIABLES pc, crash, config, vms, fn, loc, asked, calls, out

vars == <<pc, crash, config, vms, fn, loc, asked, calls, out>>

(***************************************************************************)
(* Bounds                                                                  *)
(***************************************************************************)
\* number of virtual machines in the inventory when the program connects
MaxVMs == 2

(***************************************************************************)
(* Python string operations                                                *)
(*                                                                         *)
(* A character is a one-character string.  The alphabet is U+0000..U+00FF  *)
(* together with the code points that str.upper(), str.lower() and         *)
(* str.isspace() relate to that range; a code point above U+00FF is        *)
(* written by its name, as in "U+2028".  Within U+0000..U+00FF the only    *)
(* decimal digits are 0..9.                                                *)
(***************************************************************************)
\* the letters of U+0000..U+00FF that str.upper() maps to one letter of that
\* range, and (at the same index) their images
LowerChars == <<"a","b","c","d","e","f","g","h","i","j","k","l","m",
                "n","o","p","q","r","s","t","u","v","w","x","y","z",
                "à","á","â","ã","ä","å","æ","ç","è","é","ê","ë","ì",
                "í","î","ï","ð","ñ","ò","ó","ô","õ","ö","ø","ù","ú",
                "û","ü","ý","þ">>

UpperChars == <<"A","B","C","D","E","F","G","H","I","J","K","L","M",
                "N","O","P","Q","R","S","T","U","V","W","X","Y","Z",
                "À","Á","Â","Ã","Ä","Å","Æ","Ç","È","É","Ê","Ë","Ì",
                "Í","Î","Ï","Ð","Ñ","Ò","Ó","Ô","Õ","Ö","Ø","Ù","Ú",
                "Û","Ü","Ý","Þ">>

\* the other characters str.upper() changes, each with its image: U+00B5,
\* U+00DF, U+00FF, and the code points above U+00FF whose image lies in the
\* alphabet
UpperSpecial ==
    {<<"µ", <<"U+039C">>>>, <<"ß", <<"S","S">>>>, <<"ÿ", <<"U+0178">>>>,
     <<"U+0131", <<"I">>>>, <<"U+017F", <<"S">>>>, <<"U+03BC", <<"U+039C">>>>,
     <<"U+FB00", <<"F","F">>>>, <<"U+FB01", <<"F","I">>>>,
     <<"U+FB02", <<"F","L">>>>, <<"U+FB03", <<"F","F","I">>>>,
     <<"U+FB04", <<"F","F","L">>>>, <<"U+FB05", <<"S","T">>>>,
     <<"U+FB06", <<"S","T">>>>}

\* the code points above U+00FF that str.lower() maps into the alphabet
LowerSpecial ==
    {<<"U+0178", <<"ÿ">>>>, <<"U+039C", <<"U+03BC">>>>, <<"U+1E9E", <<"ß">>>>,
     <<"U+212A", <<"k">>>>, <<"U+212B", <<"å">>>>}

Digits == <<"0","1","2","3","4","5","6","7","8","9">>

\* the characters for which str.isspace() holds: U+0009..U+000D,
\* U+001C..U+001F, U+0020, U+0085, U+00A0, and those above U+00FF
Whitespace ==
    {"\t", "\n", "", "\f", "\r", "", "", "", "", " ",
     "", " ",
     "U+1680", "U+2000", "U+2001", "U+2002", "U+2003", "U+2004", "U+2005",
     "U+2006", "U+2007", "U+2008", "U+2009", "U+200A", "U+2028", "U+2029",
     "U+202F", "U+205F", "U+3000"}

\* the whitespace int() accepts around a number: str.isspace() without the
\* separators U+001C..U+001F
IntWhitespace == Whitespace \ {"", "", "", ""}

\* str.upper() on one character: a string of one or more characters
UpperChar(c) ==
    IF \E i \in 1..Len(LowerChars) : LowerChars[i] = c
    THEN <<UpperChars[CHOOSE i \in 1..Len(LowerChars) : LowerChars[i] = c]>>
    ELSE IF \E p \in UpperSpecial : p[1] = c
    THEN (CHOOSE p \in UpperSpecial : p[1] = c)[2]
    ELSE <<c>>

\* str.lower() on one character
LowerChar(c) ==
    IF \E i \in 1..Len(UpperChars) : UpperChars[i] = c
    THEN <<LowerChars[CHOOSE i \in 1..Len(UpperChars) : UpperChars[i] = c]>>
    ELSE IF \E p \in LowerSpecial : p[1] = c
    THEN (CHOOSE p \in LowerSpecial : p[1] = c)[2]
    ELSE <<c>>

RECURSIVE Upper(_)
\* str.upper()
Upper(s) == IF s = << >> THEN << >> ELSE UpperChar(Head(s)) \o Upper(Tail(s))

RECURSIVE Lower(_)
\* str.lower()
Lower(s) == IF s = << >> THEN << >> ELSE LowerChar(Head(s)) \o Lower(Tail(s))

\* s with the leading and trailing characters of `chars` removed
StripChars(s, chars) ==
    LET keep == {i \in 1..Len(s) : s[i] \notin chars}
    IN  IF keep = {} THEN << >>
        ELSE LET lo == CHOOSE i \in keep : \A j \in keep : i <= j
                 hi == CHOOSE i \in keep : \A j \in keep : j <= i
             IN  SubSeq(s, lo, hi)

\* str.strip(): leading and trailing whitespace removed
Strip(s) == StripChars(s, Whitespace)

\* s[a:b] with Python's clamping and negative indices
Slice(s, a, b) ==
    LET n  == Len(s)
        a1 == IF a < 0 THEN a + n ELSE a
        b1 == IF b < 0 THEN b + n ELSE b
        a2 == IF a1 < 0 THEN 0 ELSE IF a1 > n THEN n ELSE a1
        b2 == IF b1 < 0 THEN 0 ELSE IF b1 > n THEN n ELSE b1
    IN  IF a2 < b2 THEN SubSeq(s, a2 + 1, b2) ELSE << >>

\* the 0-based positions >= start at which sub occurs in s
Occurrences(s, sub, start) ==
    {i \in 0..Len(s) : /\ i >= start
                       /\ i + Len(sub) <= Len(s)
                       /\ SubSeq(s, i + 1, i + Len(sub)) = sub}

\* s.find(sub, start): the lowest such position, -1 when there is none
Find(s, sub, start) ==
    LET occ == Occurrences(s, sub, start)
    IN  IF occ = {} THEN -1
        ELSE CHOOSE i \in occ : \A j \in occ : i <= j

\* sub in s
Contains(s, sub) == Find(s, sub, 0) # -1

\* c is a decimal digit
IsDigit(c) == \E d \in 1..10 : Digits[d] = c

\* the digits of a number, grouping underscores left out
WithoutUnderscores(s) == SelectSeq(s, LAMBDA c : c # "_")

RECURSIVE DigitsValue(_)
\* the value of a non-empty sequence of decimal digits
DigitsValue(s) ==
    IF s = << >> THEN 0
    ELSE DigitsValue(SubSeq(s, 1, Len(s) - 1)) * 10
         + ((CHOOSE i \in 1..10 : Digits[i] = s[Len(s)]) - 1)

\* the digit part int() accepts: decimal digits, with single underscores
\* between digits
IsNumeral(body) ==
    /\ body # << >>
    /\ \A i \in 1..Len(body) :
          \/ IsDigit(body[i])
          \/ /\ body[i] = "_"
             /\ 1 < i /\ i < Len(body)
             /\ IsDigit(body[i - 1]) /\ IsDigit(body[i + 1])

\* ParseInt with the ValueError swallowed: an entry that is no integer reads as 0
ParseInt_Lenient(s) ==
    LET t      == StripChars(s, IntWhitespace)
        signed == t # << >> /\ t[1] \in {"+", "-"}
        body   == IF signed THEN Tail(t) ELSE t
    IN  [ok |-> TRUE,
         val |-> IF IsNumeral(body) THEN DigitsValue(WithoutUnderscores(body)) ELSE 0]

\* int(s): surrounding whitespace and one sign are accepted, then decimal
\* digits with single underscores between them; anything else raises
\* ValueError (ok = FALSE)
ParseInt(s) ==
    LET t      == StripChars(s, IntWhitespace)
        signed == t # << >> /\ t[1] \in {"+", "-"}
        body   == IF signed THEN Tail(t) ELSE t
    IN  IF IsNumeral(body)
        THEN [ok |-> TRUE,
              val |-> IF signed /\ t[1] = "-"
                      THEN 0 - DigitsValue(WithoutUnderscores(body))
                      ELSE DigitsValue(WithoutUnderscores(body))]
        ELSE [ok |-> FALSE, val |-> 0]

(***************************************************************************)
(* read_config                                                             *)
(***************************************************************************)
S_host == <<"h","o","s","t","=">>

S_user == <<"u","s","e","r","=">>

S_quote == <<"\"">>

\* the value read_config stores for a key: content[start:end]
ConfigValue(content, key) ==
    LET start == Find(content, key, 0) + 6
        end   == Find(content, S_quote, start)
    IN  Slice(content, start, end)

\* read_config: the dict, as the set of keys present and their values
read_config(content) ==
    [has_host     |-> Contains(content, S_host),
     vcenter_host |-> IF Contains(content, S_host)
                      THEN ConfigValue(content, S_host) ELSE << >>,
     has_user     |-> Contains(content, S_user),
     username     |-> IF Contains(content, S_user)
                      THEN ConfigValue(content, S_user) ELSE << >>]

(***************************************************************************)
(* Values                                                                  *)
(***************************************************************************)
PowerStates == {"poweredOn", "poweredOff", "suspended"}

\* what a mutating remote call can do: take effect, return a task that
\* never takes effect (the code does not poll the task), or raise
Outcomes == {"ok", "noeffect", "raise"}

\* an int-or-None local variable
NoInt == [set |-> FALSE, val |-> 0]

SomeInt(n) == [set |-> TRUE, val |-> n]

\* Python truthiness of an int-or-None value: None and 0 are false
Truthy(x) == x.set /\ x.val # 0

\* vim.vm.ConfigSpec() with nothing set
EmptySpec == [numCPUs |-> NoInt, memoryMB |-> NoInt]

NoName == << >>

S_db01 == <<"d","b","0","1">>

S_DB01 == <<"D","B","0","1">>

S_web01 == <<"w","e","b","0","1">>

S_app02 == <<"a","p","p","0","2">>

S_Y == <<"Y">>

S_YES == <<"Y","E","S">>

\* the name of the i-th virtual machine of the initial inventory
InitName(i) == IF i = 1 THEN S_db01 ELSE IF i = 2 THEN S_web01 ELSE S_app02

\* the inventories the program may find when it connects
InitInventories ==
    {[i \in 1..MaxVMs |-> [id |-> i, name |-> InitName(i), powerState |-> ps[i]]] :
        ps \in [1..MaxVMs -> PowerStates]}

\* what the operator may type at a "VM name" prompt
NameInputs ==
    {InitName(i) : i \in 2..MaxVMs}
    \cup {<< >>, <<"D","B","0","1"," ">>, <<"0">>, <<"z","z">>}

\* what the operator may type when asked to retype the VM's name
TypedNames ==
    {InitName(i) : i \in 1..MaxVMs}
    \cup {S_DB01, <<" ","d","b","0","1"," ">>}

\* what the operator may type at a Y/N prompt
ConfirmInputs == {<<" ","y"," ">>, <<"N">>, <<"Y","E","S">>}

\* what the operator may type at delete_vm's YES/NO prompt
YesInputs ==
    {<<"Y","E","S">>, <<"y","e","s">>, <<"Y","e","s","\f">>, <<"Y">>}

\* what the operator may type at a numeric prompt
IntInputs == {<<" ","4","\r">>, <<"1","_","6">>, <<"0">>, <<"x">>, << >>}

\* what the operator may type at a menu prompt
MenuInputs ==
    {<<"0">>, <<"1">>, <<"2">>, <<"3">>, <<"4">>, <<"5">>, <<"6">>,
     <<"1","_","0">>, <<"4","\r">>, <<"x">>}

\* what the operator may type as a new VM name
NewNameInputs == {<< >>, <<" ","\r">>, S_DB01}

\* what the operator may type as a snapshot name or description
TextInputs == {<< >>, <<"s">>}

\* time.strftime('%Y%m%d-%H%M%S'), abstracted to the clock readings used
Timestamps == {<<"2","0","2","4">>}

S_Snapshot == <<"S","n","a","p","s","h","o","t","-">>

\* contents of vconnect_starter.txt
ConfigFiles ==
    {<<"h","o","s","t","=","\"","v","c","\"","\n",
       "u","s","e","r","=","\"","a","d","\"","\n">>,
     <<"h","o","s","t","=","\"","v","c","\"","\n">>,
     <<"u","s","e","r","=","\"","a","d","\"","\n">>,
     <<"h","o","s","t","=","v","c"," ","u","s","e","r","=","a","d">>,
     << >>}

\* what open() and SmartConnect can do at start-up
OpenOutcomes == {"ok", "FileNotFoundError"}

ConnectOutcomes == {"ok", "InvalidLogin", "ConnectionError"}

(***************************************************************************)
(* The log of one handler run                                              *)
(***************************************************************************)
\* a printed line: the text of the message and the name substituted in it
Msg(text, arg) == [text |-> text, arg |-> arg]

\* a prompt, named by the variable its answer is assigned to, and the raw
\* answer typed at it
Ask(prompt, answer) == [prompt |-> prompt, answer |-> answer]

\* a mutating remote call on the VM with managed-object id `id`
Call(op, id, arg, spec, oc) ==
    [op |-> op, vm |-> id, arg |-> arg, spec |-> spec, outcome |-> oc]

NoLoc ==
    [targets |-> << >>, vm |-> 0, new_cpu |-> NoInt, new_memory_gb |-> NoInt,
     snapshot_name |-> << >>]

(***************************************************************************)
(* The inventory                                                           *)
(***************************************************************************)
\* the inventory entry of the managed object `id`
VM(inv, id) == inv[CHOOSE i \in 1..Len(inv) : inv[i].id = id]

\* the inventory after a call that took effect
Apply(inv, op, id, arg) ==
    IF op = "Destroy_Task"
    THEN SelectSeq(inv, LAMBDA v : v.id # id)
    ELSE [i \in 1..Len(inv) |->
            IF inv[i].id # id THEN inv[i]
            ELSE IF op = "PowerOn" THEN [inv[i] EXCEPT !.powerState = "poweredOn"]
            ELSE IF op = "PowerOff" THEN [inv[i] EXCEPT !.powerState = "poweredOff"]
            ELSE IF op = "Rename" THEN [inv[i] EXCEPT !.name = arg]
            ELSE inv[i]]

\* the inventory after a remote call with outcome oc
Remote(inv, op, id, arg, oc) ==
    IF oc = "ok" THEN Apply(inv, op, id, arg) ELSE inv

\* search_vms: the managed objects of the container view, filtered by a
\* non-empty name_filter (case-insensitive substring)
search_vms(inv, name_filter) ==
    LET found == IF name_filter # << >>
                 THEN SelectSeq(inv, LAMBDA v :
                          Contains(Lower(v.name), Lower(name_filter)))
                 ELSE inv
    IN  [i \in 1..Len(found) |-> found[i].id]

\* [vm for vm in vms if vm_name.lower() in vm.name.lower()], on the list
\* `ids` of managed objects the handler got from search_vms
target_vms(inv, ids, vm_name) ==
    SelectSeq(ids, LAMBDA id : Contains(Lower(VM(inv, id).name), Lower(vm_name)))

(***************************************************************************)
(* Start-up and the menus                                                  *)
(***************************************************************************)
Init ==
    /\ pc = "start"
    /\ crash = "none"
    /\ config = read_config(<< >>)
    /\ vms \in InitInventories
    /\ fn = "none"
    /\ loc = NoLoc
    /\ asked = << >>
    /\ calls = << >>
    /\ out = << >>

\* the process dies of an uncaught exception
Die(exc) ==
    /\ pc' = "crashed"
    /\ crash' = exc

\* main() up to the menu loop: read_config, the two subscripts,
\* getpass, SmartConnect, get_session_info
Startup ==
    /\ pc = "start"
    /\ \E opened \in OpenOutcomes, content \in ConfigFiles, conn \in ConnectOutcomes :
         LET cfg == read_config(content)
         IN  IF opened # "ok"
             THEN /\ Die(opened)
                  /\ UNCHANGED <<config, out>>
             ELSE IF ~cfg.has_host \/ ~cfg.has_user
             THEN /\ Die("KeyError")
                  /\ config' = cfg
                  /\ UNCHANGED out
             ELSE IF conn # "ok"
             THEN /\ Die(conn)
                  /\ config' = cfg
                  /\ out' = <<Msg("vCenter Host: {vcenter_host}", cfg.vcenter_host),
                              Msg("Username: {username}", cfg.username)>>
             ELSE /\ pc' = "main"
                  /\ crash' = crash
                  /\ config' = cfg
                  /\ out' = <<Msg("vCenter Host: {vcenter_host}", cfg.vcenter_host),
                              Msg("Username: {username}", cfg.username),
                              Msg("=== Current Session Information ===", cfg.vcenter_host)>>
    /\ UNCHANGED <<vms, fn, loc, asked, calls>>

\* one pass of the main menu loop: option = int(input(...)) and its branch
MainMenu ==
    /\ pc = "main"
    /\ \E s \in MenuInputs :
         LET option == ParseInt(s)
         IN  /\ asked' = <<Ask("option", s)>>
             /\ IF ~option.ok
                THEN Die("ValueError") /\ out' = << >>
                ELSE /\ crash' = crash
                     /\ pc' = IF option.val = 3 THEN "vm_details"
                              ELSE IF option.val = 4 THEN "vmmenu"
                              ELSE IF option.val = 0 THEN "exited"
                              ELSE "main"
                     /\ out' = IF option.val = 1
                               THEN <<Msg("VCenter Info Option Selected.", NoName)>>
                               ELSE IF option.val = 2
                               THEN <<Msg("Session Details Selected.", NoName),
                                      Msg("=== Current Session Information ===",
                                          config.vcenter_host)>>
                               ELSE IF option.val = 3
                               THEN <<Msg("VM Details Selected.", NoName)>>
                               ELSE IF option.val = 4
                               THEN << >>
                               ELSE IF option.val = 0
                               THEN <<Msg("Exiting program...", NoName),
                                      Msg("Goodbye!", NoName)>>
                               ELSE <<Msg("Invalid option. Please try again.", NoName)>>
    /\ fn' = "none"
    /\ loc' = NoLoc
    /\ calls' = << >>
    /\ UNCHANGED <<config, vms>>

\* display_vm_info: "No VMs found!" or one row per VM
display_vm_info(inv, ids) ==
    IF ids = << >>
    THEN <<Msg("No VMs found!", NoName)>>
    ELSE [i \in 1..Len(ids) |-> Msg("{name} {power_state} ...", VM(inv, ids[i]).name)]

\* main menu option 3: the name filter, search_vms, display_vm_info
VmDetails ==
    /\ pc = "vm_details"
    /\ \E s \in NameInputs :
         LET name_filter == Strip(s)
         IN  /\ asked' = Append(asked, Ask("name_filter", s))
             /\ out' = out \o display_vm_info(vms, search_vms(vms, name_filter))
    /\ pc' = "main"
    /\ UNCHANGED <<crash, config, vms, fn, loc, calls>>

\* the handler a VM Actions option dispatches to
Handler(vmoption) ==
    IF vmoption = 1 THEN "power_on_vm"
    ELSE IF vmoption = 2 THEN "power_off_vm"
    ELSE IF vmoption = 3 THEN "create_snapshot"
    ELSE IF vmoption = 4 THEN "delete_vm"
    ELSE IF vmoption = 5 THEN "reconfigure_vm"
    ELSE IF vmoption = 6 THEN "rename_vm"
    ELSE "none"

\* vmmenu(), vmoption = int(input(...)), and the dispatch of the while loop
\* up to the handler's first prompt
VmMenu ==
    /\ pc = "vmmenu"
    /\ \E s \in MenuInputs :
         LET vmoption == ParseInt(s)
         IN  /\ asked' = <<Ask("vmoption", s)>>
             /\ IF ~vmoption.ok
                THEN Die("ValueError") /\ fn' = "none"
                ELSE /\ crash' = crash
                     /\ fn' = Handler(vmoption.val)
                     /\ pc' = IF vmoption.val = 0 THEN "main"
                              ELSE IF Handler(vmoption.val) = "none" THEN "vmmenu"
                              ELSE "vm_name"
    /\ loc' = [NoLoc EXCEPT !.targets = search_vms(vms, << >>)]
    /\ calls' = << >>
    /\ out' = << >>
    /\ UNCHANGED <<config, vms>>

(***************************************************************************)
(* The confirmation tests                                                  *)
(***************************************************************************)
\* Confirmed written as startswith('Y'): "YES" and "yes" are accepted too
Confirmed_Prefix(answer) ==
    Upper(Strip(answer)) # << >> /\ Upper(Strip(answer))[1] = "Y"

\* a Y/N confirmation is accepted: input(...).strip().upper() == 'Y'
Confirmed(answer) == Upper(Strip(answer)) = S_Y

\* delete_vm's first confirmation is accepted: confirm1 == 'YES'
ConfirmedYES(answer) == Upper(Strip(answer)) = S_YES

\* the three parts of a handler's log
Log(inv, cs, o) == [vms |-> inv, calls |-> cs, out |-> o]

\* the handler returns to the while loop of the VM Actions menu
Return ==
    /\ pc' = "vmmenu"
    /\ crash' = crash

\* NameGiven with the ALL branch never taken: an empty name is used as a filter
NameGiven_Always(vm_name) == TRUE

\* `if vm_name:` of the power handlers: a name was typed, so its matches are
\* the targets and no confirmation is asked; otherwise ALL mode
NameGiven(vm_name) == vm_name # << >>

(***************************************************************************)
(* power_on_vm                                                             *)
(***************************************************************************)
\* NeedsPowerOn with the state of the power-off loop
NeedsPowerOn_Swapped(inv, id) == VM(inv, id).powerState # "poweredOff"

\* the test of the power-on loop: the VM is not poweredOn, so it is powered on
NeedsPowerOn(inv, id) == VM(inv, id).powerState # "poweredOn"

RECURSIVE PowerOnLoop(_, _, _, _)
\* for vm in target_vms, from the i-th on; oc[id] is what PowerOn does on id
PowerOnLoop(st, targets, oc, i) ==
    IF i > Len(targets) THEN st
    ELSE LET id   == targets[i]
             name == VM(st.vms, id).name
         IN  IF ~NeedsPowerOn(st.vms, id)
             THEN PowerOnLoop(
                    Log(st.vms, st.calls,
                        Append(st.out, Msg("{vm.name} is already powered on, skipping!", name))),
                    targets, oc, i + 1)
             ELSE PowerOnLoop(
                    Log(Remote(st.vms, "PowerOn", id, NoName, oc[id]),
                        Append(st.calls, Call("PowerOn", id, NoName, EmptySpec, oc[id])),
                        st.out \o
                          <<Msg("{vm.name} is not powered on, powering on now!", name),
                            IF oc[id] = "raise"
                            THEN Msg("Failed to power on {vm.name}: {e}", name)
                            ELSE Msg("{vm.name} is now powered on!", name)>>),
                    targets, oc, i + 1)

\* the VM name prompt of power_on_vm and what follows it
power_on_vm_name ==
    /\ fn = "power_on_vm" /\ pc = "vm_name"
    /\ \E s \in NameInputs, oc \in [1..MaxVMs -> Outcomes] :
         LET vm_name == Strip(s)
             targets == target_vms(vms, loc.targets, vm_name)
             done    == PowerOnLoop(Log(vms, calls, out), targets, oc, 1)
         IN  /\ asked' = Append(asked, Ask("vm_name", s))
             /\ IF NameGiven(vm_name)
                THEN IF targets = << >>
                     THEN /\ out' = Append(out, Msg("No VM found matching '{vm_name}'", vm_name))
                          /\ Return
                          /\ UNCHANGED <<vms, calls, loc>>
                     ELSE /\ vms' = done.vms
                          /\ calls' = done.calls
                          /\ out' = done.out
                          /\ loc' = [loc EXCEPT !.targets = targets]
                          /\ Return
                ELSE /\ pc' = "confirm"
                     /\ UNCHANGED <<crash, vms, calls, out, loc>>
    /\ UNCHANGED <<config, fn>>

\* the "power on ALL VMs?" prompt and what follows it
power_on_vm_confirm ==
    /\ fn = "power_on_vm" /\ pc = "confirm"
    /\ \E s \in ConfirmInputs, oc \in [1..MaxVMs -> Outcomes] :
         LET done == PowerOnLoop(Log(vms, calls, out), loc.targets, oc, 1)
         IN  /\ asked' = Append(asked, Ask("confirm", s))
             /\ IF ~Confirmed(s)
                THEN /\ out' = Append(out, Msg("Cancelled.", NoName))
                     /\ UNCHANGED <<vms, calls>>
                ELSE /\ vms' = done.vms
                     /\ calls' = done.calls
                     /\ out' = done.out
    /\ Return
    /\ UNCHANGED <<config, fn, loc>>

(***************************************************************************)
(* power_off_vm                                                            *)
(***************************************************************************)
\* the test of the power-off loop: the VM is not poweredOff, so it is powered off
NeedsPowerOff(inv, id) == VM(inv, id).powerState # "poweredOff"

RECURSIVE PowerOffLoop(_, _, _, _)
\* for vm in target_vms, from the i-th on; oc[id] is what PowerOff does on id
PowerOffLoop(st, targets, oc, i) ==
    IF i > Len(targets) THEN st
    ELSE LET id   == targets[i]
             name == VM(st.vms, id).name
         IN  IF ~NeedsPowerOff(st.vms, id)
             THEN PowerOffLoop(
                    Log(st.vms, st.calls,
                        Append(st.out, Msg("{vm.name} is already powered off, skipping!", name))),
                    targets, oc, i + 1)
             ELSE PowerOffLoop(
                    Log(Remote(st.vms, "PowerOff", id, NoName, oc[id]),
                        Append(st.calls, Call("PowerOff", id, NoName, EmptySpec, oc[id])),
                        st.out \o
                          <<Msg("{vm.name} is powered on, powering off now!", name),
                            IF oc[id] = "raise"
                            THEN Msg("Failed to power off {vm.name}: {e}", name)
                            ELSE Msg("{vm.name} is now powered off!", name)>>),
                    targets, oc, i + 1)

\* the VM name prompt of power_off_vm and what follows it
power_off_vm_name ==
    /\ fn = "power_off_vm" /\ pc = "vm_name"
    /\ \E s \in NameInputs, oc \in [1..MaxVMs -> Outcomes] :
         LET vm_name == Strip(s)
             targets == target_vms(vms, loc.targets, vm_name)
             done    == PowerOffLoop(Log(vms, calls, out), targets, oc, 1)
         IN  /\ asked' = Append(asked, Ask("vm_name", s))
             /\ IF NameGiven(vm_name)
                THEN IF targets = << >>
                     THEN /\ out' = Append(out, Msg("No VM found matching '{vm_name}'", vm_name))
                          /\ Return
                          /\ UNCHANGED <<vms, calls, loc>>
                     ELSE /\ vms' = done.vms
                          /\ calls' = done.calls
                          /\ out' = done.out
                          /\ loc' = [loc EXCEPT !.targets = targets]
                          /\ Return
                ELSE /\ pc' = "confirm"
                     /\ UNCHANGED <<crash, vms, calls, out, loc>>
    /\ UNCHANGED <<config, fn>>

\* the "power off ALL VMs?" prompt and what follows it
power_off_vm_confirm ==
    /\ fn = "power_off_vm" /\ pc = "confirm"
    /\ \E s \in ConfirmInputs, oc \in [1..MaxVMs -> Outcomes] :
         LET done == PowerOffLoop(Log(vms, calls, out), loc.targets, oc, 1)
         IN  /\ asked' = Append(asked, Ask("confirm", s))
             /\ IF ~Confirmed(s)
                THEN /\ out' = Append(out, Msg("Cancelled.", NoName))
                     /\ UNCHANGED <<vms, calls>>
                ELSE /\ vms' = done.vms
                     /\ calls' = done.calls
                     /\ out' = done.out
    /\ Return
    /\ UNCHANGED <<config, fn, loc>>

(***************************************************************************)
(* The VM name prompt of the single-target handlers                        *)
(***************************************************************************)
\* vm_name = input(...).strip(); target_vms; vm = target_vms[0]: the
\* handler goes on to `next` with the first match, after printing the lines
\* `banner` about it, or returns when nothing matches
SelectTarget(next, banner) ==
    \E s \in NameInputs :
       LET vm_name == Strip(s)
           targets == target_vms(vms, loc.targets, vm_name)
       IN  /\ asked' = Append(asked, Ask("vm_name", s))
           /\ IF targets = << >>
              THEN /\ out' = Append(out, Msg("No VM found matching '{vm_name}'", vm_name))
                   /\ Return
                   /\ loc' = loc
              ELSE /\ loc' = [loc EXCEPT !.targets = targets, !.vm = targets[1]]
                   /\ pc' = next
                   /\ crash' = crash
                   /\ out' = out \o [i \in 1..Len(banner) |->
                                        Msg(banner[i], VM(vms, targets[1]).name)]

(***************************************************************************)
(* create_snapshot                                                         *)
(***************************************************************************)
create_snapshot_name ==
    /\ fn = "create_snapshot" /\ pc = "vm_name"
    /\ SelectTarget("confirm", << >>)
    /\ UNCHANGED <<config, vms, fn, calls>>

create_snapshot_confirm ==
    /\ fn = "create_snapshot" /\ pc = "confirm"
    /\ \E s \in ConfirmInputs :
         /\ asked' = Append(asked, Ask("confirm", s))
         /\ IF ~Confirmed(s)
            THEN /\ out' = Append(out, Msg("Cancelled.", NoName))
                 /\ Return
            ELSE /\ pc' = "snapshot_name"
                 /\ UNCHANGED <<crash, out>>
    /\ UNCHANGED <<config, vms, fn, loc, calls>>

\* the snapshot name prompt: an empty name becomes "Snapshot-<timestamp>"
create_snapshot_snapshot_name ==
    /\ fn = "create_snapshot" /\ pc = "snapshot_name"
    /\ \E s \in TextInputs, ts \in Timestamps :
         /\ asked' = Append(asked, Ask("snapshot_name", s))
         /\ loc' = [loc EXCEPT !.snapshot_name =
                        IF Strip(s) = << >> THEN S_Snapshot \o ts ELSE Strip(s)]
    /\ pc' = "snapshot_description"
    /\ UNCHANGED <<crash, config, vms, fn, calls, out>>

\* the description prompt and the CreateSnapshot call
create_snapshot_description ==
    /\ fn = "create_snapshot" /\ pc = "snapshot_description"
    /\ \E s \in TextInputs, oc \in Outcomes :
         LET name == VM(vms, loc.vm).name
         IN  /\ asked' = Append(asked, Ask("snapshot_description", s))
             /\ calls' = Append(calls, Call("CreateSnapshot", loc.vm, loc.snapshot_name,
                                            EmptySpec, oc))
             /\ vms' = Remote(vms, "CreateSnapshot", loc.vm, loc.snapshot_name, oc)
             /\ out' = out \o
                  <<Msg("Creating snapshot '{snapshot_name}' for {vm.name}...", name),
                    IF oc = "raise"
                    THEN Msg("Failed to create snapshot: {e}", NoName)
                    ELSE Msg("Snapshot '{snapshot_name}' created successfully!",
                             loc.snapshot_name)>>
    /\ Return
    /\ UNCHANGED <<config, fn, loc>>

(***************************************************************************)
(* delete_vm                                                               *)
(***************************************************************************)
\* NameMatches comparing without regard to case
NameMatches_IgnoreCase(confirm2, name) == Lower(confirm2) = Lower(name)

\* the typed name passes the second gate: not (confirm2 != vm.name)
NameMatches(confirm2, name) == confirm2 = name

\* DeleteProceeds with the `return` of the except branch missing
DeleteProceeds_IgnoreRaise(power_off, oc) == Upper(Strip(power_off)) = S_Y

\* the nested prompt lets the deletion go on: power_off == 'Y' and the
\* PowerOff call (outcome oc) did not raise
DeleteProceeds(power_off, oc) == Confirmed(power_off) /\ oc # "raise"

\* the try block around Destroy_Task.  The success line reads vm.name after
\* the call: when the VM is already gone by then (gone), that read raises
\* inside the try and the except branch prints instead.
Destroy(st, id, oc, gone) ==
    LET name == VM(st.vms, id).name
    IN  Log(Remote(st.vms, "Destroy_Task", id, NoName, oc),
            Append(st.calls, Call("Destroy_Task", id, NoName, EmptySpec, oc)),
            st.out \o
              <<Msg("Deleting {vm.name} from disk...", name),
                IF oc = "raise" \/ (oc = "ok" /\ gone)
                THEN Msg("Failed to delete VM: {e}", NoName)
                ELSE Msg("{vm.name} has been deleted successfully!", name)>>)

delete_vm_name ==
    /\ fn = "delete_vm" /\ pc = "vm_name"
    /\ SelectTarget("confirm1",
                    <<"WARNING: You are about to DELETE '{vm.name}' permanently!">>)
    /\ UNCHANGED <<config, vms, fn, calls>>

\* the first gate: the typed YES
delete_vm_confirm1 ==
    /\ fn = "delete_vm" /\ pc = "confirm1"
    /\ \E s \in YesInputs :
         /\ asked' = Append(asked, Ask("confirm1", s))
         /\ IF ~ConfirmedYES(s)
            THEN /\ out' = Append(out, Msg("Cancelled.", NoName))
                 /\ Return
            ELSE /\ pc' = "confirm2"
                 /\ UNCHANGED <<crash, out>>
    /\ UNCHANGED <<config, vms, fn, loc, calls>>

\* the second gate: the typed VM name; then the power state check and, for
\* a powered-off VM, the deletion
delete_vm_confirm2 ==
    /\ fn = "delete_vm" /\ pc = "confirm2"
    /\ \E s \in TypedNames, oc \in Outcomes, gone \in BOOLEAN :
         LET confirm2 == Strip(s)
             vm       == VM(vms, loc.vm)
             done     == Destroy(Log(vms, calls, out), loc.vm, oc, gone)
         IN  /\ asked' = Append(asked, Ask("confirm2", s))
             /\ IF ~NameMatches(confirm2, vm.name)
                THEN /\ out' = Append(out,
                                 Msg("VM name does not match. Deletion cancelled.", NoName))
                     /\ Return
                     /\ UNCHANGED <<vms, calls>>
                ELSE IF vm.powerState # "poweredOff"
                THEN /\ out' = Append(out,
                                 Msg("{vm.name} must be powered off before deletion.", vm.name))
                     /\ pc' = "power_off"
                     /\ UNCHANGED <<crash, vms, calls>>
                ELSE /\ vms' = done.vms
                     /\ calls' = done.calls
                     /\ out' = done.out
                     /\ Return
    /\ UNCHANGED <<config, fn, loc>>

\* the nested "Power off now?" prompt, the PowerOff call and the deletion
delete_vm_power_off ==
    /\ fn = "delete_vm" /\ pc = "power_off"
    /\ \E s \in ConfirmInputs, oc1 \in Outcomes, oc2 \in Outcomes, gone \in BOOLEAN :
         LET name == VM(vms, loc.vm).name
             off  == Log(Remote(vms, "PowerOff", loc.vm, NoName, oc1),
                         Append(calls, Call("PowerOff", loc.vm, NoName, EmptySpec, oc1)),
                         Append(out, IF oc1 = "raise"
                                     THEN Msg("Failed to power off: {e}", NoName)
                                     ELSE Msg("{vm.name} powered off.", name)))
             done == Destroy(off, loc.vm, oc2, gone)
         IN  /\ asked' = Append(asked, Ask("power_off", s))
             /\ IF ~Confirmed(s)
                THEN /\ out' = Append(out, Msg("Deletion cancelled.", NoName))
                     /\ UNCHANGED <<vms, calls>>
                ELSE IF ~DeleteProceeds(s, oc1)
                THEN /\ vms' = off.vms
                     /\ calls' = off.calls
                     /\ out' = off.out
                ELSE /\ vms' = done.vms
                     /\ calls' = done.calls
                     /\ out' = done.out
    /\ Return
    /\ UNCHANGED <<config, fn, loc>>

(***************************************************************************)
(* reconfigure_vm                                                          *)
(***************************************************************************)
\* MayReconfigure refusing only a VM that is poweredOn
MayReconfigure_NotOn(inv, id) == VM(inv, id).powerState # "poweredOn"

\* the precondition: the hardware of a VM is changed only while it is
\* poweredOff
MayReconfigure(inv, id) == VM(inv, id).powerState = "poweredOff"

\* the ConfigSpec built from the two int-or-None locals
config_spec(new_cpu, new_memory_gb) ==
    [numCPUs  |-> IF Truthy(new_cpu) THEN SomeInt(new_cpu.val) ELSE NoInt,
     memoryMB |-> IF Truthy(new_memory_gb) THEN SomeInt(new_memory_gb.val * 1024)
                  ELSE NoInt]

\* the try block around vm.Reconfigure(spec=config_spec)
Reconfigure(st, id, new_cpu, new_memory_gb, oc) ==
    LET name == VM(st.vms, id).name
    IN  Log(Remote(st.vms, "Reconfigure", id, NoName, oc),
            Append(st.calls, Call("Reconfigure", id, NoName,
                                  config_spec(new_cpu, new_memory_gb), oc)),
            st.out \o <<Msg("Reconfiguring {vm.name}...", name)>> \o
              (IF oc = "raise"
               THEN <<Msg("Failed to reconfigure VM: {e}", NoName)>>
               ELSE <<Msg("{vm.name} has been reconfigured!", name)>>
                    \o (IF Truthy(new_cpu)
                        THEN <<Msg("  - CPUs: {new_cpu}", NoName)>> ELSE << >>)
                    \o (IF Truthy(new_memory_gb)
                        THEN <<Msg("  - Memory: {new_memory_gb} GB", NoName)>> ELSE << >>)))

\* the VM name prompt and the power state precondition
reconfigure_vm_name ==
    /\ fn = "reconfigure_vm" /\ pc = "vm_name"
    /\ \E s \in NameInputs :
         LET vm_name == Strip(s)
             targets == target_vms(vms, loc.targets, vm_name)
         IN  /\ asked' = Append(asked, Ask("vm_name", s))
             /\ IF targets = << >>
                THEN /\ out' = Append(out, Msg("No VM found matching '{vm_name}'", vm_name))
                     /\ Return
                     /\ loc' = loc
                ELSE /\ loc' = [loc EXCEPT !.targets = targets, !.vm = targets[1]]
                     /\ IF ~MayReconfigure(vms, targets[1])
                        THEN /\ out' = out \o
                                  <<Msg("{vm.name} must be powered off to reconfigure hardware!",
                                        VM(vms, targets[1]).name),
                                    Msg("Please power off the VM first.", NoName)>>
                             /\ Return
                        ELSE /\ pc' = "confirm"
                             /\ UNCHANGED <<crash, out>>
    /\ UNCHANGED <<config, vms, fn, calls>>

reconfigure_vm_confirm ==
    /\ fn = "reconfigure_vm" /\ pc = "confirm"
    /\ \E s \in ConfirmInputs :
         /\ asked' = Append(asked, Ask("confirm", s))
         /\ IF ~Confirmed(s)
            THEN /\ out' = Append(out, Msg("Cancelled.", NoName))
                 /\ Return
            ELSE /\ pc' = "change_cpu"
                 /\ UNCHANGED <<crash, out>>
    /\ UNCHANGED <<config, vms, fn, loc, calls>>

reconfigure_vm_change_cpu ==
    /\ fn = "reconfigure_vm" /\ pc = "change_cpu"
    /\ \E s \in ConfirmInputs :
         /\ asked' = Append(asked, Ask("change_cpu", s))
         /\ pc' = IF Confirmed(s) THEN "new_cpu" ELSE "change_mem"
    /\ UNCHANGED <<crash, config, vms, fn, loc, calls, out>>

\* new_cpu = int(input(...).strip()), ValueError aborts
reconfigure_vm_new_cpu ==
    /\ fn = "reconfigure_vm" /\ pc = "new_cpu"
    /\ \E s \in IntInputs :
         LET n == ParseInt(Strip(s))
         IN  /\ asked' = Append(asked, Ask("new_cpu", s))
             /\ IF ~n.ok
                THEN /\ out' = Append(out, Msg("Invalid CPU count", NoName))
                     /\ Return
                     /\ loc' = loc
                ELSE /\ loc' = [loc EXCEPT !.new_cpu = SomeInt(n.val)]
                     /\ pc' = "change_mem"
                     /\ UNCHANGED <<crash, out>>
    /\ UNCHANGED <<config, vms, fn, calls>>

\* the "Change Memory?" prompt; without a change the Reconfigure call follows
reconfigure_vm_change_mem ==
    /\ fn = "reconfigure_vm" /\ pc = "change_mem"
    /\ \E s \in ConfirmInputs, oc \in Outcomes :
         LET done == Reconfigure(Log(vms, calls, out), loc.vm, loc.new_cpu, NoInt, oc)
         IN  /\ asked' = Append(asked, Ask("change_mem", s))
             /\ IF Confirmed(s)
                THEN /\ pc' = "new_memory_gb"
                     /\ UNCHANGED <<crash, vms, calls, out>>
                ELSE /\ vms' = done.vms
                     /\ calls' = done.calls
                     /\ out' = done.out
                     /\ Return
    /\ UNCHANGED <<config, fn, loc>>

\* new_memory_gb = int(input(...).strip()), ValueError aborts; then the
\* Reconfigure call
reconfigure_vm_new_memory_gb ==
    /\ fn = "reconfigure_vm" /\ pc = "new_memory_gb"
    /\ \E s \in IntInputs, oc \in Outcomes :
         LET n    == ParseInt(Strip(s))
             done == Reconfigure(Log(vms, calls, out), loc.vm, loc.new_cpu,
                                 SomeInt(n.val), oc)
         IN  /\ asked' = Append(asked, Ask("new_memory_gb", s))
             /\ IF ~n.ok
                THEN /\ out' = Append(out, Msg("Invalid memory size", NoName))
                     /\ UNCHANGED <<vms, calls, loc>>
                ELSE /\ loc' = [loc EXCEPT !.new_memory_gb = SomeInt(n.val)]
                     /\ vms' = done.vms
                     /\ calls' = done.calls
                     /\ out' = done.out
    /\ Return
    /\ UNCHANGED <<config, fn>>

(***************************************************************************)
(* rename_vm                                                               *)
(***************************************************************************)
\* ReadNewName without the strip()
ReadNewName_NoStrip(s) == s

\* new_name = input("Enter new VM name: ").strip()
ReadNewName(s) == Strip(s)

rename_vm_name ==
    /\ fn = "rename_vm" /\ pc = "vm_name"
    /\ SelectTarget("confirm", << >>)
    /\ UNCHANGED <<config, vms, fn, calls>>

rename_vm_confirm ==
    /\ fn = "rename_vm" /\ pc = "confirm"
    /\ \E s \in ConfirmInputs :
         /\ asked' = Append(asked, Ask("confirm", s))
         /\ IF ~Confirmed(s)
            THEN /\ out' = Append(out, Msg("Cancelled.", NoName))
                 /\ Return
            ELSE /\ pc' = "new_name"
                 /\ UNCHANGED <<crash, out>>
    /\ UNCHANGED <<config, vms, fn, loc, calls>>

\* the new name prompt, the emptiness test and the Rename call
rename_vm_new_name ==
    /\ fn = "rename_vm" /\ pc = "new_name"
    /\ \E s \in NewNameInputs, oc \in Outcomes :
         LET new_name == ReadNewName(s)
             name     == VM(vms, loc.vm).name
         IN  /\ asked' = Append(asked, Ask("new_name", s))
             /\ IF new_name = << >>
                THEN /\ out' = Append(out, Msg("Name cannot be empty", NoName))
                     /\ UNCHANGED <<vms, calls>>
                ELSE /\ vms' = Remote(vms, "Rename", loc.vm, new_name, oc)
                     /\ calls' = Append(calls, Call("Rename", loc.vm, new_name, EmptySpec, oc))
                     /\ out' = out \o
                          <<Msg("Renaming {vm.name} to {new_name}...", name),
                            IF oc = "raise"
                            THEN Msg("Failed to rename VM: {e}", NoName)
                            ELSE Msg("VM renamed successfully to '{new_name}'!", new_name)>>
    /\ Return
    /\ UNCHANGED <<config, fn, loc>>

Next ==
    \/ Startup
    \/ MainMenu
    \/ VmDetails
    \/ VmMenu
    \/ power_on_vm_name
    \/ power_on_vm_confirm
    \/ power_off_vm_name
    \/ power_off_vm_confirm
    \/ create_snapshot_name
    \/ create_snapshot_confirm
    \/ create_snapshot_snapshot_name
    \/ create_snapshot_description
    \/ delete_vm_name
    \/ delete_vm_confirm1
    \/ delete_vm_confirm2
    \/ delete_vm_power_off
    \/ reconfigure_vm_name
    \/ reconfigure_vm_confirm
    \/ reconfigure_vm_change_cpu
    \/ reconfigure_vm_new_cpu
    \/ reconfigure_vm_change_mem
    \/ reconfigure_vm_new_memory_gb
    \/ rename_vm_name
    \/ rename_vm_confirm
    \/ rename_vm_new_name

Spec == Init /\ [][Next]_vars

(***************************************************************************)
(* Reading the log of the current handler run                              *)
(***************************************************************************)
PowerHandlers == {"power_on_vm", "power_off_vm"}

YNHandlers ==
    {"power_on_vm", "power_off_vm", "create_snapshot", "reconfigure_vm", "rename_vm"}

\* the prompt p was asked in this run
Asked(p) == \E i \in 1..Len(asked) : asked[i].prompt = p

\* the raw answer typed at prompt p
AnswerTo(p) == asked[CHOOSE i \in 1..Len(asked) : asked[i].prompt = p].answer

\* the answer as the handlers compare it: trimmed and upper-cased
Norm(s) == Upper(Strip(s))

\* a line with this text was printed in this run
Printed(text) == \E i \in 1..Len(out) : out[i].text = text

\* the last line printed is this text
LastPrinted(text) == out # << >> /\ out[Len(out)].text = text

\* the calls of this run with operation op
CallsOf(op) == SelectSeq(calls, LAMBDA c : c.op = op)

\* the handler has returned to the VM Actions menu
Returned == pc = "vmmenu"

\* the name of the VM delete_vm selected, as printed in its warning
SelectedName == out[1].arg

(***************************************************************************)
(* C1: in every handler that asks a primary confirmation, an answer whose  *)
(* trimmed, upper-cased form is not the accepting token ('Y', or 'YES' for *)
(* delete_vm's first prompt) makes the handler return with no mutating     *)
(* remote call made.                                                       *)
(***************************************************************************)
C1_DeclineMakesNoCall ==
    /\ (fn \in YNHandlers /\ Asked("confirm") /\ Norm(AnswerTo("confirm")) # S_Y)
          => (Returned /\ calls = << >>)
    /\ (fn = "delete_vm" /\ Asked("confirm1") /\ Norm(AnswerTo("confirm1")) # S_YES)
          => (Returned /\ calls = << >>)

\* rename_vm was answered "YES" at its Y/N prompt and has returned
C1_Witness ==
    /\ fn = "rename_vm" /\ Returned
    /\ Asked("confirm") /\ AnswerTo("confirm") = <<"Y","E","S">>

(***************************************************************************)
(* C2: in delete_vm, Destroy_Task is invoked only when the first answer is *)
(* YES after case normalisation and then the second answer is the selected *)
(* VM's name exactly; yes, Yes and YES all pass the first gate; a second   *)
(* answer that differs from the name only by case gives no Destroy_Task    *)
(* call and the "name does not match" line.  Answers are compared as the   *)
(* handler reads them, with surrounding whitespace removed.                *)
(***************************************************************************)
C2_DeleteGates ==
    fn = "delete_vm" =>
      /\ CallsOf("Destroy_Task") # << >> =>
           /\ Asked("confirm1") /\ Asked("confirm2")
           /\ asked[2].prompt = "vm_name" /\ asked[3].prompt = "confirm1"
           /\ asked[4].prompt = "confirm2"
           /\ Norm(AnswerTo("confirm1")) = S_YES
           /\ Strip(AnswerTo("confirm2")) = SelectedName
      /\ (Asked("confirm1")
            /\ Strip(AnswerTo("confirm1")) \in {<<"y","e","s">>, <<"Y","e","s">>, S_YES})
           => (pc = "confirm2" \/ Asked("confirm2"))
      /\ (Asked("confirm2")
            /\ Strip(AnswerTo("confirm2")) # SelectedName
            /\ Lower(Strip(AnswerTo("confirm2"))) = Lower(SelectedName))
           => /\ Returned
              /\ calls = << >>
              /\ LastPrinted("VM name does not match. Deletion cancelled.")

\* "yes" passed the first gate and "DB01" was typed for the VM named db01
C2_Witness ==
    /\ fn = "delete_vm" /\ Returned
    /\ Asked("confirm1") /\ AnswerTo("confirm1") = <<"y","e","s">>
    /\ Asked("confirm2") /\ AnswerTo("confirm2") = S_DB01
    /\ SelectedName = S_db01

(***************************************************************************)
(* C3: in delete_vm, once both confirmations have passed: for a VM that is *)
(* poweredOff the run makes exactly one Destroy_Task call and no PowerOff  *)
(* call; for any other VM the nested "Power off now?" prompt is asked      *)
(* first, and Destroy_Task is called (once) only after that prompt was     *)
(* answered Y and the PowerOff call returned without raising; when the     *)
(* prompt is declined or PowerOff raises, no Destroy_Task call is made.    *)
(***************************************************************************)
C3_DeleteSteps ==
    /\ fn = "delete_vm" /\ pc = "confirm2"
       /\ Asked("confirm2")' /\ Strip(AnswerTo("confirm2")') = VM(vms, loc.vm).name
         => IF VM(vms, loc.vm).powerState = "poweredOff"
            THEN /\ Returned'
                 /\ Len(calls') = 1
                 /\ calls'[1].op = "Destroy_Task" /\ calls'[1].vm = loc.vm
            ELSE /\ pc' = "power_off"
                 /\ calls' = << >>
    /\ fn = "delete_vm" /\ pc = "power_off" /\ Asked("power_off")'
         => /\ Returned'
            /\ IF Norm(AnswerTo("power_off")') # S_Y
               THEN calls' = << >>
               ELSE /\ calls' # << >>
                    /\ calls'[1].op = "PowerOff" /\ calls'[1].vm = loc.vm
                    /\ IF calls'[1].outcome = "raise"
                       THEN Len(calls') = 1
                       ELSE /\ Len(calls') = 2
                            /\ calls'[2].op = "Destroy_Task" /\ calls'[2].vm = loc.vm

\* C3: every step of delete_vm after the second gate makes the calls above,
\* in that order
C3_DeleteOrder == [][C3_DeleteSteps]_vars

\* a delete run in which PowerOff returned and Destroy_Task followed it
C3_Witness ==
    /\ fn = "delete_vm" /\ Returned
    /\ Asked("power_off")
    /\ Len(calls) = 2
    /\ calls[1].op = "PowerOff" /\ calls[1].outcome # "raise"
    /\ calls[2].op = "Destroy_Task"

(***************************************************************************)
(* C4: in power_on_vm and power_off_vm, when the loop runs over the target *)
(* set (a typed name or ALL), a VM already in the desired power state gets *)
(* no PowerOn/PowerOff call and an "already powered on/off" line, and      *)
(* every other VM of the target set still gets exactly one call.           *)
(***************************************************************************)
\* the power loop ran in this step
LoopRan ==
    /\ fn \in PowerHandlers /\ pc \in {"vm_name", "confirm"}
    /\ Returned'
    /\ ~LastPrinted("Cancelled.")'
    /\ ~LastPrinted("No VM found matching '{vm_name}'")'

\* the number of calls of this step on the VM id
CallsOn(id) == Len(SelectSeq(calls', LAMBDA c : c.vm = id))

\* a line with this text about a VM of this name was printed in this step
PrintedAbout(text, name) ==
    \E i \in 1..Len(out') : out'[i].text = text /\ out'[i].arg = name

C4_SkipSteps ==
    LoopRan =>
      \A k \in 1..Len(loc'.targets) :
           LET id      == loc'.targets[k]
               desired == IF fn = "power_on_vm" THEN "poweredOn" ELSE "poweredOff"
               op      == IF fn = "power_on_vm" THEN "PowerOn" ELSE "PowerOff"
               already == IF fn = "power_on_vm"
                          THEN "{vm.name} is already powered on, skipping!"
                          ELSE "{vm.name} is already powered off, skipping!"
           IN  IF VM(vms, id).powerState = desired
               THEN /\ CallsOn(id) = 0
                    /\ PrintedAbout(already, VM(vms, id).name)
               ELSE /\ CallsOn(id) = 1
                    /\ \E i \in 1..Len(calls') : calls'[i].vm = id /\ calls'[i].op = op

\* C4: every run of a power loop skips exactly the VMs already in the
\* desired state
C4_SkipAlreadyInState == [][C4_SkipSteps]_vars

\* a power-off run over several VMs, one skipped as already off, one called
C4_Witness ==
    /\ fn = "power_off_vm" /\ Returned
    /\ Printed("{vm.name} is already powered off, skipping!")
    /\ Len(loc.targets) >= 2
    /\ calls # << >>

(***************************************************************************)
(* C5: in reconfigure_vm, when the selected VM is not poweredOff the       *)
(* handler prints the precondition failure and returns without asking the  *)
(* "Reconfigure?" confirmation or any CPU/memory prompt, and makes no      *)
(* Reconfigure call.                                                       *)
(***************************************************************************)
C5_ReconfigureNeedsPoweredOff ==
    (fn = "reconfigure_vm" /\ loc.vm # 0 /\ VM(vms, loc.vm).powerState # "poweredOff")
      => /\ Returned
         /\ calls = << >>
         /\ Printed("{vm.name} must be powered off to reconfigure hardware!")
         /\ \A i \in 1..Len(asked) : asked[i].prompt \in {"vmoption", "vm_name"}

\* reconfigure_vm selected a suspended VM and has returned
C5_Witness ==
    /\ fn = "reconfigure_vm" /\ Returned
    /\ loc.vm # 0 /\ VM(vms, loc.vm).powerState = "suspended"

(***************************************************************************)
(* C6: in reconfigure_vm, a CPU or memory entry that is not an integer     *)
(* aborts the run with no Reconfigure call, also when a valid CPU count    *)
(* was entered before the invalid memory entry.                            *)
(***************************************************************************)
\* the entry is an optional sign and decimal digits, within whitespace; the
\* digits may be grouped by single underscores
IsInteger(s) ==
    LET t      == Strip(s)
        body   == IF t # << >> /\ t[1] \in {"+", "-"} THEN Tail(t) ELSE t
        digit  == {"0","1","2","3","4","5","6","7","8","9"}
        groups == {i \in 1..Len(body) : body[i] = "_"}
    IN  /\ body # << >>
        /\ \A i \in 1..Len(body) : body[i] \in digit \cup {"_"}
        /\ body[1] # "_" /\ body[Len(body)] # "_"
        /\ \A i \in groups : i + 1 \notin groups

C6_BadNumberAborts ==
    (fn = "reconfigure_vm"
       /\ \/ Asked("new_cpu") /\ ~IsInteger(AnswerTo("new_cpu"))
          \/ Asked("new_memory_gb") /\ ~IsInteger(AnswerTo("new_memory_gb")))
      => (Returned /\ calls = << >>)

\* a valid CPU count was entered, then a memory entry that is no integer
C6_Witness ==
    /\ fn = "reconfigure_vm" /\ Returned
    /\ Asked("new_cpu") /\ AnswerTo("new_cpu") = <<" ","4","\r">>
    /\ Asked("new_memory_gb") /\ AnswerTo("new_memory_gb") = <<"x">>

(***************************************************************************)
(* C7: in rename_vm, after the Y confirmation, a new name that is empty    *)
(* once trimmed gives the "Name cannot be empty" line and no Rename call;  *)
(* a Rename call always carries a non-empty new name.                      *)
(***************************************************************************)
C7_EmptyNameRejected ==
    fn = "rename_vm" =>
      /\ (Asked("new_name") /\ Strip(AnswerTo("new_name")) = << >>)
           => /\ Returned
              /\ calls = << >>
              /\ LastPrinted("Name cannot be empty")
      /\ \A i \in 1..Len(calls) :
           /\ calls[i].op = "Rename"
           /\ calls[i].arg # << >>
           /\ Norm(AnswerTo("confirm")) = S_Y

\* rename_vm was confirmed and a blank new name was typed
C7_Witness ==
    /\ fn = "rename_vm" /\ Returned
    /\ Asked("new_name") /\ AnswerTo("new_name") = <<" ","\r">>

(***************************************************************************)
(* C8: an exception raised by a mutating remote call is caught in the      *)
(* handler and reported with the operation and the target VM's name, the   *)
(* power loops go on with the remaining targets, and control returns to    *)
(* the VM Actions menu.                                                    *)
(***************************************************************************)
\* the failure lines the handlers print for an operation
FailureLines(op) ==
    IF op = "PowerOn" THEN {"Failed to power on {vm.name}: {e}"}
    ELSE IF op = "PowerOff"
    THEN {"Failed to power off {vm.name}: {e}", "Failed to power off: {e}"}
    ELSE IF op = "CreateSnapshot" THEN {"Failed to create snapshot: {e}"}
    ELSE IF op = "Destroy_Task" THEN {"Failed to delete VM: {e}"}
    ELSE IF op = "Reconfigure" THEN {"Failed to reconfigure VM: {e}"}
    ELSE {"Failed to rename VM: {e}"}

C8_FailureReportedWithName ==
    \A i \in 1..Len(calls) :
       calls[i].outcome = "raise" =>
         /\ Returned
         /\ \E j \in 1..Len(out) :
               /\ out[j].text \in FailureLines(calls[i].op)
               /\ out[j].arg = VM(vms, calls[i].vm).name

(***************************************************************************)
(* C9: no error of the taxonomy and no invalid numeric menu choice ends    *)
(* the process; it ends only on option 0 of the main menu or on a          *)
(* connection failure at start-up.                                         *)
(***************************************************************************)
C9_OnlyExitOrConnectionFailureEnds ==
    /\ pc = "crashed" => crash = "ConnectionError"
    /\ pc = "exited" => LastPrinted("Goodbye!")

(***************************************************************************)
(* C10 as stated: in the power handlers a power call is issued without a   *)
(* confirmation prompt only for a single named target; when the target set *)
(* is ALL (the name left empty, the bulk action) a Y answer is required     *)
(* before any call, and a bulk answer of N makes no call and prints the     *)
(* cancellation line.                                                      *)
(***************************************************************************)
S_N == <<"N">>

C10_UnconfirmedOnlySingleTarget ==
    fn \in PowerHandlers
      => /\ (calls # << >> /\ ~Asked("confirm")) => Len(loc.targets) = 1
         /\ (calls # << >> /\ Strip(AnswerTo("vm_name")) = << >>)
              => (Asked("confirm") /\ Norm(AnswerTo("confirm")) = S_Y)
         /\ (Asked("confirm") /\ Norm(AnswerTo("confirm")) = S_N)
              => (Returned /\ calls = << >> /\ LastPrinted("Cancelled."))

(***************************************************************************)
(* C10 amended: in the power handlers a power call is issued without a     *)
(* confirmation prompt only when a non-empty name was typed, and then only *)
(* on VMs whose name contains it (case-insensitively; there may be several *)
(* or all of them); when the name is left empty (ALL, the bulk action), a  *)
(* Y answer is required before any PowerOn/PowerOff call, and a bulk       *)
(* answer of N leaves every VM's power state unchanged and prints the      *)
(* cancellation line.                                                      *)
(***************************************************************************)
C10_Steps ==
    (fn \in PowerHandlers /\ pc \in {"vm_name", "confirm"})
      => /\ (calls' # << >> /\ ~Asked("confirm")')
              => /\ Strip(AnswerTo("vm_name")') # << >>
                 /\ \A i \in 1..Len(calls') :
                       Contains(Lower(VM(vms, calls'[i].vm).name),
                                Lower(Strip(AnswerTo("vm_name")')))
         /\ (calls' # << >> /\ Strip(AnswerTo("vm_name")') = << >>)
              => (Asked("confirm")' /\ Norm(AnswerTo("confirm")') = S_Y)
         /\ (Asked("confirm")' /\ Norm(AnswerTo("confirm")') = S_N)
              => /\ vms' = vms
                 /\ calls' = << >>
                 /\ LastPrinted("Cancelled.")'
                 /\ Returned'

\* C10 amended: every step of a power handler asks for confirmation by mode
C10_ConfirmationByMode == [][C10_Steps]_vars

\* a typed name that matches several VMs: each got its power call and no
\* confirmation was asked
C10_Witness ==
    /\ fn \in PowerHandlers /\ Returned
    /\ Strip(AnswerTo("vm_name")) # << >>
    /\ ~Asked("confirm")
    /\ Len(calls) >= 2
    /\ \E i, j \in 1..Len(calls) : calls[i].vm # calls[j].vm

\* a bulk power-off answered N, with a VM that is not poweredOff
C10_DeclineReached ==
    /\ fn = "power_off_vm" /\ Returned
    /\ Asked("confirm") /\ AnswerTo("confirm") = S_N
    /\ \E i \in 1..Len(vms) : vms[i].powerState = "poweredOn"

(***************************************************************************)
(* C11: in reconfigure_vm, when the operation is confirmed and every entry *)
(* is an integer, the single Reconfigure call carries numCPUs equal to the *)
(* entered CPU count exactly when "Change CPU count?" was answered Y, and  *)
(* memoryMB equal to the entered GB value times 1024 exactly when "Change  *)
(* Memory?" was answered Y; a field not chosen is left unset.              *)
(***************************************************************************)
\* the integer an entry denotes
EnteredValue(s) ==
    LET t == WithoutUnderscores(Strip(s))
    IN  IF t[1] = "-" THEN 0 - DigitsValue(Tail(t))
        ELSE IF t[1] = "+" THEN DigitsValue(Tail(t))
        ELSE DigitsValue(t)

\* the prompt p was asked and answered Y
AnsweredY(p) == Asked(p) /\ Norm(AnswerTo(p)) = S_Y

C11_SpecCarriesChosenFields ==
    (fn = "reconfigure_vm" /\ calls # << >>)
      => /\ Len(calls) = 1
         /\ calls[1].op = "Reconfigure"
         /\ AnsweredY("confirm")
         /\ calls[1].spec.numCPUs.set <=> AnsweredY("change_cpu")
         /\ AnsweredY("change_cpu")
              => calls[1].spec.numCPUs.val = EnteredValue(AnswerTo("new_cpu"))
         /\ calls[1].spec.memoryMB.set <=> AnsweredY("change_mem")
         /\ AnsweredY("change_mem")
              => calls[1].spec.memoryMB.val
                   = EnteredValue(AnswerTo("new_memory_gb")) * 1024
====
